---- MODULE Spec2Model ----
(***************************************************************************)
(* Model of trainer.py: the entry point main(args) and the training loop   *)
(* train(...).  Every statement group of the two functions is one action;  *)
(* pc is the position of the single thread of control.                     *)
(*                                                                         *)
(* Abstractions: tensors are not modelled; a per-step loss is an exact     *)
(* natural number chosen from LossVals; the parameters of the network and  *)
(* the state of the optimizer are the number of optimizer steps applied    *)
(* to each of them.                                                        *)
(***************************************************************************)
EXTENDS Naturals, Sequences, FiniteSets

\* ---- bounds of the model ------------------------------------------------
MaxEpochs == 2
MaxSaveEvery == 2
MaxBatches == 2
MaxLoss == 1

\* the two loss values a step may produce
LossVals == {0, MaxLoss}

\* values of "LossFunction" a specs.json may hold ("Focal" is not recognised)
LossNames == {"Dice", "BCE", "Focal"}

VARIABLES
    pc,            \* position of the thread of control
    fs,            \* paths that exist on disk
    specsFile,     \* content of specs.json (meaningful when the file exists)
    nb,            \* number of batches the data loader yields per epoch
    seeded,        \* the three RNG seeds were set
    stdout,        \* lines printed, as tuples <<tag, ...>>
    ret,           \* value returned by main: "unset", "0" or "None"
    exc,           \* uncaught exception, "" when none
    failedAt,      \* pc at which the exception was raised
    built,         \* objects constructed by main
    trainCalled,   \* main called train
    specsLoaded,   \* json.load returned
    loss_func, num_epochs, save_epoch,   \* main's locals read from the specs
    criterion,     \* main's local criterion
    epoch, batch,  \* loop variables of train
    running_loss, dice_loss, focal_loss, \* the three running sums
    grads,         \* parameter gradients: "none", "zero", "computed"
    device_batch,  \* batch whose img/mask are on the device (0 = none)
    inp_logits,    \* batch the logits were computed for (0 = none)
    loss1, loss2, loss,   \* locals of the step
    backLoss,      \* the loss backward() was last called on
    params,        \* model parameters: optimizer steps applied
    optState,      \* optimizer state: optimizer steps taken
    scalars,       \* events handed to writer.add_scalar, in order
    flushes,       \* number of writer.flush() calls
    saveLatestCalls,      \* snapshots written by save_latest, in order
    saveCheckpointCalls,  \* snapshots written by save_checkpoint, in order
    stepLog,       \* actions performed so far in the current step
    epochSteps     \* <<loss1, loss2>> of the committed steps of the epoch

vars == <<pc, fs, specsFile, nb, seeded, stdout, ret, exc, failedAt, built,
          trainCalled, specsLoaded, loss_func, num_epochs, save_epoch,
          criterion, epoch, batch, running_loss, dice_loss, focal_loss,
          grads, device_batch, inp_logits, loss1, loss2, loss, backLoss,
          params, optState, scalars, flushes, saveLatestCalls,
          saveCheckpointCalls, stepLog, epochSteps>>

mainVars == <<seeded, ret, built, trainCalled, specsLoaded, loss_func,
              num_epochs, save_epoch, criterion>>
envVars == <<fs, specsFile, nb>>
loopVars == <<epoch, batch, running_loss, dice_loss, focal_loss>>
stepVars == <<grads, device_batch, inp_logits, loss1, loss2, loss, backLoss,
              params, optState>>
outVars == <<scalars, flushes, saveLatestCalls, saveCheckpointCalls>>

NoLoss == [value |-> 0, terms |-> <<>>]

\* ---- helpers --------------------------------------------------------------
RECURSIVE SumOf(_, _)
SumOf(s, k) == IF s = <<>> THEN 0 ELSE s[1][k] + SumOf(Tail(s), k)

\* what a snapshot call receives: (epoch, model, optimizer)
Snapshot(e) == [epoch |-> e, model |-> params, opt |-> optState]

\* the "latest" artifact is a single file overwritten by every save_latest
LatestFile ==
    IF saveLatestCalls = <<>> THEN <<>>
    ELSE <<saveLatestCalls[Len(saveLatestCalls)]>>

\* epochs for which an epoch-numbered checkpoint artifact exists
CheckpointEpochs ==
    {saveCheckpointCalls[i].epoch : i \in 1..Len(saveCheckpointCalls)}

\* loss = loss1 + loss2, loss1 = loss_fn(...), loss2 = sigmoid_focal_loss(...)
LossTerms_3 == <<criterion, "WeightedFocalLoss", "sigmoid_focal_loss">>
LossTerms == <<criterion, "sigmoid_focal_loss">>

CombinedLoss(l1, l2) == l1 + l2

\* the lines of the batch loop body and its header
StepPcs == {"next_batch", "zero_grad", "load", "forward", "loss", "backward",
            "opt_step", "accumulate"}

StepOrder == <<"zero_grad", "forward", "loss", "backward", "opt_step",
               "accumulate">>

\* ---- initial states -------------------------------------------------------
Init ==
    /\ pc = "main"
    /\ fs \in {{}} \cup
              {{"exp_dir"} \cup s : s \in SUBSET {"checkpoints", "evaluation",
                                                  "specs.json"}}
    /\ specsFile \in [LossFunction : LossNames,
                      Epochs : 0..MaxEpochs,
                      SaveEvery : 0..MaxSaveEvery]
    /\ nb \in 0..MaxBatches
    /\ seeded = FALSE
    /\ stdout = <<>>
    /\ ret = "unset"
    /\ exc = ""
    /\ failedAt = ""
    /\ built = {}
    /\ trainCalled = FALSE
    /\ specsLoaded = FALSE
    /\ loss_func = ""
    /\ num_epochs = 0
    /\ save_epoch = 0
    /\ criterion = "none"
    /\ epoch = 0
    /\ batch = 0
    /\ running_loss = 0
    /\ dice_loss = 0
    /\ focal_loss = 0
    /\ grads = "none"
    /\ device_batch = 0
    /\ inp_logits = 0
    /\ loss1 = 0
    /\ loss2 = 0
    /\ loss = NoLoss
    /\ backLoss = NoLoss
    /\ params = 0
    /\ optState = 0
    /\ scalars = <<>>
    /\ flushes = 0
    /\ saveLatestCalls = <<>>
    /\ saveCheckpointCalls = <<>>
    /\ stepLog = <<>>
    /\ epochSteps = <<>>

\* ---- main -----------------------------------------------------------------
\* lines 57-64: seed, then check that the experiment directory exists
MainCheckDir_fallthrough ==
    /\ pc = "main"
    /\ seeded' = TRUE
    /\ IF "exp_dir" \notin fs
       THEN /\ stdout' = Append(stdout, <<"ERR_DIR">>)
            /\ pc' = "mkdirs"
            /\ ret' = ret
       ELSE /\ pc' = "mkdirs"
            /\ UNCHANGED <<stdout, ret>>
    /\ UNCHANGED <<envVars, exc, failedAt, built, trainCalled, specsLoaded,
                   loss_func, num_epochs, save_epoch, criterion, loopVars,
                   stepVars, outVars, stepLog, epochSteps>>

MainCheckDir ==
    /\ pc = "main"
    /\ seeded' = TRUE
    /\ IF "exp_dir" \notin fs
       THEN /\ stdout' = Append(stdout, <<"ERR_DIR">>)
            /\ ret' = "0"
            /\ pc' = "returned"
       ELSE /\ pc' = "mkdirs"
            /\ UNCHANGED <<stdout, ret>>
    /\ UNCHANGED <<envVars, exc, failedAt, built, trainCalled, specsLoaded,
                   loss_func, num_epochs, save_epoch, criterion, loopVars,
                   stepVars, outVars, stepLog, epochSteps>>

\* lines 66-72: create the checkpoint and evaluation subdirectories
MainMakeDirs ==
    /\ pc = "mkdirs"
    /\ fs' = fs \cup {"checkpoints", "evaluation"}
    /\ pc' = "read_specs"
    /\ UNCHANGED <<specsFile, nb, mainVars, stdout, exc, failedAt, loopVars,
                   stepVars, outVars, stepLog, epochSteps>>

\* lines 74-86: open and parse specs.json; open() raises when it is missing
MainReadSpecs_print ==
    /\ pc = "read_specs"
    /\ IF "specs.json" \notin fs
       THEN /\ stdout' = Append(stdout, <<"ERR_SPECS">>)
            /\ ret' = "0"
            /\ pc' = "returned"
            /\ UNCHANGED <<exc, failedAt, specsLoaded, loss_func, num_epochs,
                           save_epoch>>
       ELSE /\ specsLoaded' = TRUE
            /\ loss_func' = specsFile.LossFunction
            /\ num_epochs' = specsFile.Epochs
            /\ save_epoch' = specsFile.SaveEvery
            /\ stdout' = stdout \o <<<<"INFO_SPECS">>, <<"INFO_DATA_DIR">>>>
            /\ pc' = "build_model"
            /\ UNCHANGED <<exc, failedAt, ret>>
    /\ UNCHANGED <<envVars, seeded, built, trainCalled, criterion,
                   loopVars, stepVars, outVars, stepLog, epochSteps>>

MainReadSpecs ==
    /\ pc = "read_specs"
    /\ IF "specs.json" \notin fs
       THEN /\ exc' = "FileNotFoundError"
            /\ failedAt' = pc
            /\ pc' = "raised"
            /\ UNCHANGED <<stdout, specsLoaded, loss_func, num_epochs,
                           save_epoch>>
       ELSE /\ specsLoaded' = TRUE
            /\ loss_func' = specsFile.LossFunction
            /\ num_epochs' = specsFile.Epochs
            /\ save_epoch' = specsFile.SaveEvery
            /\ stdout' = stdout \o <<<<"INFO_SPECS">>, <<"INFO_DATA_DIR">>>>
            /\ pc' = "build_model"
            /\ UNCHANGED <<exc, failedAt>>
    /\ UNCHANGED <<envVars, seeded, ret, built, trainCalled, criterion,
                   loopVars, stepVars, outVars, stepLog, epochSteps>>

\* lines 88-93: construct the model and the optimizer
MainBuildModel ==
    /\ pc = "build_model"
    /\ built' = built \cup {"model", "optimizer"}
    /\ pc' = "select_loss"
    /\ UNCHANGED <<envVars, seeded, ret, trainCalled, specsLoaded, loss_func,
                   num_epochs, save_epoch, criterion, stdout, exc, failedAt,
                   loopVars, stepVars, outVars, stepLog, epochSteps>>

\* lines 95-103: select the criterion by name
MainSelectLoss ==
    /\ pc = "select_loss"
    /\ IF loss_func = "Dice"
       THEN /\ stdout' = Append(stdout, <<"USING_DICE">>)
            /\ criterion' = "DiceLoss"
            /\ pc' = "build_loader"
            /\ ret' = ret
       ELSE IF loss_func = "BCE"
       THEN /\ stdout' = Append(stdout, <<"USING_BCE">>)
            /\ criterion' = "BCEWithLogitsLoss"
            /\ pc' = "build_loader"
            /\ ret' = ret
       ELSE /\ stdout' = Append(stdout, <<"ERR_LOSS">>)
            /\ ret' = "0"
            /\ pc' = "returned"
            /\ criterion' = criterion
    /\ UNCHANGED <<envVars, seeded, built, trainCalled, specsLoaded,
                   loss_func, num_epochs, save_epoch, exc, failedAt, loopVars,
                   stepVars, outVars, stepLog, epochSteps>>

\* lines 105-110: construct the data loader and the metrics writer
MainBuildLoader ==
    /\ pc = "build_loader"
    /\ built' = built \cup {"train_loader", "writer"}
    /\ stdout' = Append(stdout, <<"BEGIN_TRAINING">>)
    /\ pc' = "call_train"
    /\ UNCHANGED <<envVars, seeded, ret, trainCalled, specsLoaded, loss_func,
                   num_epochs, save_epoch, criterion, exc, failedAt, loopVars,
                   stepVars, outVars, stepLog, epochSteps>>

\* lines 111-112: call train
MainCallTrain ==
    /\ pc = "call_train"
    /\ trainCalled' = TRUE
    /\ pc' = "epoch_loop"
    /\ UNCHANGED <<envVars, seeded, ret, built, specsLoaded, loss_func,
                   num_epochs, save_epoch, criterion, stdout, exc, failedAt,
                   loopVars, stepVars, outVars, stepLog, epochSteps>>

\* line 112: train returned, main falls off its end
MainReturn ==
    /\ pc = "train_done"
    /\ ret' = "None"
    /\ pc' = "returned"
    /\ UNCHANGED <<envVars, seeded, built, trainCalled, specsLoaded,
                   loss_func, num_epochs, save_epoch, criterion, stdout, exc,
                   failedAt, loopVars, stepVars, outVars, stepLog,
                   epochSteps>>

\* ---- train ----------------------------------------------------------------
\* lines 25-29: next epoch (model.train, running sums reset) or leave the loop
EpochLoop_noreset ==
    /\ pc = "epoch_loop"
    /\ IF epoch < num_epochs
       THEN /\ epoch' = epoch + 1
            /\ batch' = 0
            /\ UNCHANGED <<running_loss, dice_loss, focal_loss>>
            /\ stepLog' = <<>>
            /\ epochSteps' = <<>>
            /\ pc' = "next_batch"
       ELSE /\ pc' = "flush"
            /\ UNCHANGED <<loopVars, stepLog, epochSteps>>
    /\ UNCHANGED <<envVars, mainVars, stdout, exc, failedAt, stepVars,
                   outVars>>

EpochLoop ==
    /\ pc = "epoch_loop"
    /\ IF epoch < num_epochs
       THEN /\ epoch' = epoch + 1
            /\ batch' = 0
            /\ running_loss' = 0
            /\ dice_loss' = 0
            /\ focal_loss' = 0
            /\ stepLog' = <<>>
            /\ epochSteps' = <<>>
            /\ pc' = "next_batch"
       ELSE /\ pc' = "flush"
            /\ UNCHANGED <<loopVars, stepLog, epochSteps>>
    /\ UNCHANGED <<envVars, mainVars, stdout, exc, failedAt, stepVars,
                   outVars>>

\* line 30: fetch the next batch, or leave the batch loop
NextBatch_skipzero ==
    /\ pc = "next_batch"
    /\ IF batch < nb
       THEN /\ batch' = batch + 1
            /\ stepLog' = <<>>
            /\ pc' = "load"
       ELSE /\ pc' = "emit"
            /\ UNCHANGED <<batch, stepLog>>
    /\ UNCHANGED <<envVars, mainVars, stdout, exc, failedAt, epoch,
                   running_loss, dice_loss, focal_loss, stepVars, outVars,
                   epochSteps>>

NextBatch ==
    /\ pc = "next_batch"
    /\ IF batch < nb
       THEN /\ batch' = batch + 1
            /\ stepLog' = <<>>
            /\ pc' = "zero_grad"
       ELSE /\ pc' = "emit"
            /\ UNCHANGED <<batch, stepLog>>
    /\ UNCHANGED <<envVars, mainVars, stdout, exc, failedAt, epoch,
                   running_loss, dice_loss, focal_loss, stepVars, outVars,
                   epochSteps>>

\* line 31: optimizer.zero_grad()
ZeroGrad ==
    /\ pc = "zero_grad"
    /\ grads' = "zero"
    /\ stepLog' = Append(stepLog, "zero_grad")
    /\ pc' = "load"
    /\ UNCHANGED <<envVars, mainVars, stdout, exc, failedAt, loopVars,
                   device_batch, inp_logits, loss1, loss2, loss, backLoss,
                   params, optState, outVars, epochSteps>>

\* lines 32-33: move image and mask to the device
LoadBatch ==
    /\ pc = "load"
    /\ device_batch' = batch
    /\ stepLog' = Append(stepLog, "load")
    /\ pc' = "forward"
    /\ UNCHANGED <<envVars, mainVars, stdout, exc, failedAt, loopVars,
                   grads, inp_logits, loss1, loss2, loss, backLoss, params,
                   optState, outVars, epochSteps>>

\* line 34: forward pass
Forward ==
    /\ pc = "forward"
    /\ inp_logits' = device_batch
    /\ stepLog' = Append(stepLog, "forward")
    /\ pc' = "loss"
    /\ UNCHANGED <<envVars, mainVars, stdout, exc, failedAt, loopVars,
                   grads, device_batch, loss1, loss2, loss, backLoss, params,
                   optState, outVars, epochSteps>>

\* lines 35-37: loss1 = loss_fn(..), loss2 = sigmoid_focal_loss(..), the sum
ComputeLoss ==
    /\ pc = "loss"
    /\ \E l1 \in LossVals, l2 \in LossVals :
          /\ loss1' = l1
          /\ loss2' = l2
          /\ loss' = [value |-> CombinedLoss(l1, l2), terms |-> LossTerms]
    /\ stepLog' = Append(stepLog, "loss")
    /\ pc' = "backward"
    /\ UNCHANGED <<envVars, mainVars, stdout, exc, failedAt, loopVars,
                   grads, device_batch, inp_logits, backLoss, params,
                   optState, outVars, epochSteps>>

\* line 38: loss.backward()
Backward ==
    /\ pc = "backward"
    /\ grads' = "computed"
    /\ backLoss' = loss
    /\ stepLog' = Append(stepLog, "backward")
    /\ pc' = "opt_step"
    /\ UNCHANGED <<envVars, mainVars, stdout, exc, failedAt, loopVars,
                   device_batch, inp_logits, loss1, loss2, loss, params,
                   optState, outVars, epochSteps>>

\* line 39: optimizer.step() mutates the parameters and the optimizer state
OptStep ==
    /\ pc = "opt_step"
    /\ params' = params + 1
    /\ optState' = optState + 1
    /\ stepLog' = Append(stepLog, "opt_step")
    /\ pc' = "accumulate"
    /\ UNCHANGED <<envVars, mainVars, stdout, exc, failedAt, loopVars,
                   grads, device_batch, inp_logits, loss1, loss2, loss,
                   backLoss, outVars, epochSteps>>

\* lines 40-42: accumulate the three running sums
Accumulate_save ==
    /\ pc = "accumulate"
    /\ running_loss' = running_loss + loss.value
    /\ dice_loss' = dice_loss + loss1
    /\ focal_loss' = focal_loss + loss2
    /\ stepLog' = Append(stepLog, "accumulate")
    /\ epochSteps' = Append(epochSteps, <<loss1, loss2>>)
    /\ saveLatestCalls' = Append(saveLatestCalls, Snapshot(epoch))
    /\ pc' = "next_batch"
    /\ UNCHANGED <<envVars, mainVars, stdout, exc, failedAt, epoch, batch,
                   stepVars, scalars, flushes, saveCheckpointCalls>>

Accumulate ==
    /\ pc = "accumulate"
    /\ running_loss' = running_loss + loss.value
    /\ dice_loss' = dice_loss + loss1
    /\ focal_loss' = focal_loss + loss2
    /\ stepLog' = Append(stepLog, "accumulate")
    /\ epochSteps' = Append(epochSteps, <<loss1, loss2>>)
    /\ pc' = "next_batch"
    /\ UNCHANGED <<envVars, mainVars, stdout, exc, failedAt, epoch, batch,
                   stepVars, outVars>>

\* lines 30-42: a statement of the step raises; nothing catches it
Fail_retry ==
    /\ pc \in StepPcs
    /\ pc = "next_batch" => batch < nb
    /\ exc = ""
    /\ exc' = "StepError"
    /\ failedAt' = pc
    /\ pc' = "next_batch"
    /\ UNCHANGED <<envVars, mainVars, stdout, loopVars, stepVars, outVars,
                   stepLog, epochSteps>>

Fail ==
    /\ pc \in StepPcs
    /\ pc = "next_batch" => batch < nb
    /\ exc' = "StepError"
    /\ failedAt' = pc
    /\ pc' = "raised"
    /\ UNCHANGED <<envVars, mainVars, stdout, loopVars, stepVars, outVars,
                   stepLog, epochSteps>>

\* lines 44-48: emit the three running sums, print the summary line
EmitMetrics_flush ==
    /\ pc = "emit"
    /\ scalars' = scalars \o
          << [tag |-> "Loss/overall", value |-> running_loss, step |-> epoch],
             [tag |-> "Loss/dice", value |-> dice_loss, step |-> epoch],
             [tag |-> "Loss/focal", value |-> focal_loss, step |-> epoch] >>
    /\ stdout' = Append(stdout, <<"EPOCH", epoch, running_loss>>)
    /\ flushes' = flushes + 1
    /\ pc' = "save_latest"
    /\ UNCHANGED <<envVars, mainVars, exc, failedAt, loopVars, stepVars,
                   saveLatestCalls, saveCheckpointCalls, stepLog,
                   epochSteps>>

EmitMetrics ==
    /\ pc = "emit"
    /\ scalars' = scalars \o
          << [tag |-> "Loss/overall", value |-> running_loss, step |-> epoch],
             [tag |-> "Loss/dice", value |-> dice_loss, step |-> epoch],
             [tag |-> "Loss/focal", value |-> focal_loss, step |-> epoch] >>
    /\ stdout' = Append(stdout, <<"EPOCH", epoch, running_loss>>)
    /\ pc' = "save_latest"
    /\ UNCHANGED <<envVars, mainVars, exc, failedAt, loopVars, stepVars,
                   flushes, saveLatestCalls, saveCheckpointCalls, stepLog,
                   epochSteps>>

\* lines 49-50: save_latest, then the test epoch % save_every == 0
\* (the modulo raises ZeroDivisionError when save_every is 0)
SaveLatest_always ==
    /\ pc = "save_latest"
    /\ saveLatestCalls' = Append(saveLatestCalls, Snapshot(epoch))
    /\ IF save_epoch = 0
       THEN /\ exc' = "ZeroDivisionError"
            /\ failedAt' = pc
            /\ pc' = "raised"
       ELSE /\ pc' = "save_checkpoint"
            /\ UNCHANGED <<exc, failedAt>>
    /\ UNCHANGED <<envVars, mainVars, stdout, loopVars, stepVars, scalars,
                   flushes, saveCheckpointCalls, stepLog, epochSteps>>

SaveLatest ==
    /\ pc = "save_latest"
    /\ saveLatestCalls' = Append(saveLatestCalls, Snapshot(epoch))
    /\ IF save_epoch = 0
       THEN /\ exc' = "ZeroDivisionError"
            /\ failedAt' = pc
            /\ pc' = "raised"
       ELSE /\ pc' = IF epoch % save_epoch = 0 THEN "save_checkpoint"
                     ELSE "epoch_loop"
            /\ UNCHANGED <<exc, failedAt>>
    /\ UNCHANGED <<envVars, mainVars, stdout, loopVars, stepVars, scalars,
                   flushes, saveCheckpointCalls, stepLog, epochSteps>>

\* line 51: save_checkpoint
SaveCheckpoint ==
    /\ pc = "save_checkpoint"
    /\ saveCheckpointCalls' = Append(saveCheckpointCalls, Snapshot(epoch))
    /\ pc' = "epoch_loop"
    /\ UNCHANGED <<envVars, mainVars, stdout, exc, failedAt, loopVars,
                   stepVars, scalars, flushes, saveLatestCalls, stepLog,
                   epochSteps>>

\* line 52: writer.flush(), train returns
Flush ==
    /\ pc = "flush"
    /\ flushes' = flushes + 1
    /\ pc' = "train_done"
    /\ UNCHANGED <<envVars, mainVars, stdout, exc, failedAt, loopVars,
                   stepVars, scalars, saveLatestCalls, saveCheckpointCalls,
                   stepLog, epochSteps>>

Next ==
    \/ MainCheckDir
    \/ MainMakeDirs
    \/ MainReadSpecs
    \/ MainBuildModel
    \/ MainSelectLoss
    \/ MainBuildLoader
    \/ MainCallTrain
    \/ MainReturn
    \/ EpochLoop
    \/ NextBatch
    \/ ZeroGrad
    \/ LoadBatch
    \/ Forward
    \/ ComputeLoss
    \/ Backward
    \/ OptStep
    \/ Accumulate
    \/ Fail
    \/ EmitMetrics
    \/ SaveLatest
    \/ SaveCheckpoint
    \/ Flush

Spec == Init /\ [][Next]_vars

\* ---- properties ------------------------------------------------------------
Constructed == {"model", "optimizer", "train_loader"}

ErrorPrinted ==
    \E i \in 1..Len(stdout) : stdout[i][1] \in {"ERR_DIR", "ERR_LOSS",
                                                "ERR_SPECS"}

TrainCompleted == trainCalled /\ pc \in {"train_done", "returned"}

IsStepOrderAct(a) == a # "load"
ClaimLog == SelectSeq(stepLog, IsStepOrderAct)

IsPrefix(s, t) == Len(s) <= Len(t) /\ s = SubSeq(t, 1, Len(s))

Scheduled(n, k) == {e \in 1..n : e % k = 0}

\* C1: in a run of train with epochs >= 1 and save_every >= 1 that completes,
\* save_latest was invoked exactly once for each epoch 1..epochs in increasing
\* order, and save_checkpoint exactly for the epochs e with
\* e mod save_every = 0; at every earlier point the calls made so far are a
\* prefix of that schedule.
C1_SaveSchedule ==
    (trainCalled /\ num_epochs >= 1 /\ save_epoch >= 1) =>
       /\ \A i \in 1..Len(saveLatestCalls) : saveLatestCalls[i].epoch = i
       /\ \A i \in 1..Len(saveCheckpointCalls) :
             /\ saveCheckpointCalls[i].epoch = i * save_epoch
             /\ saveCheckpointCalls[i].epoch <= Len(saveLatestCalls)
       /\ CheckpointEpochs \subseteq Scheduled(num_epochs, save_epoch)
       /\ TrainCompleted =>
             /\ Len(saveLatestCalls) = num_epochs
             /\ CheckpointEpochs = Scheduled(num_epochs, save_epoch)
             /\ Len(saveCheckpointCalls) = Cardinality(CheckpointEpochs)

C1_Witness ==
    /\ pc = "train_done"
    /\ num_epochs = 2
    /\ save_epoch = 2
    /\ Len(saveLatestCalls) = 2
    /\ CheckpointEpochs = {2}

\* C2: on an existing experiment directory whose specs.json holds a
\* LossFunction other than "Dice" or "BCE", main constructs neither a model
\* nor an optimizer nor a data loader at any point of the run, and it has
\* printed an error when it ends.
C2_NoConstructionOnBadLoss ==
    (specsLoaded /\ loss_func \notin {"Dice", "BCE"}) =>
       /\ built \cap Constructed = {}
       /\ pc \in {"returned", "raised"} => ErrorPrinted

\* C3 as stated: on an existing experiment directory without specs.json, main
\* has printed an error when it ends and has constructed neither a model nor
\* an optimizer nor a data loader.
C3_Original ==
    ("exp_dir" \in fs /\ "specs.json" \notin fs) =>
       /\ built \cap Constructed = {}
       /\ pc \in {"returned", "raised"} => ErrorPrinted

\* C3 amended: on an existing experiment directory without specs.json, main
\* ends by the uncaught FileNotFoundError of open(); it prints no error
\* message of its own and returns no sentinel, it has created the two
\* subdirectories, and it constructs neither a model nor an optimizer nor a
\* data loader nor a writer and does not call train.
C3_MissingSpecsRaises ==
    ("exp_dir" \in fs /\ "specs.json" \notin fs) =>
       /\ built = {}
       /\ ~trainCalled
       /\ ~specsLoaded
       /\ ~ErrorPrinted
       /\ ret = "unset"
       /\ pc \in {"main", "mkdirs", "read_specs", "raised"}
       /\ pc = "raised" =>
             /\ exc = "FileNotFoundError"
             /\ failedAt = "read_specs"
             /\ {"checkpoints", "evaluation"} \subseteq fs

C3_Witness ==
    /\ "exp_dir" \in fs
    /\ "specs.json" \notin fs
    /\ pc = "raised"
    /\ exc = "FileNotFoundError"

\* C4: when the experiment directory does not exist, main prints an error and
\* returns the sentinel 0 without raising, and it creates no subdirectory,
\* does not read specs.json, constructs nothing and does not call train.
C4_MissingDirSentinel ==
    "exp_dir" \notin fs =>
       /\ pc \in {"main", "returned"}
       /\ exc = ""
       /\ fs = {}
       /\ ~specsLoaded
       /\ built = {}
       /\ ~trainCalled
       /\ pc = "main" => ret = "unset" /\ stdout = <<>>
       /\ pc = "returned" => ret = "0" /\ stdout = << <<"ERR_DIR">> >>

C4_Witness ==
    /\ "exp_dir" \notin fs
    /\ pc = "returned"
    /\ ret = "0"

\* C5 as stated: the loss handed to backward() is the sum of three
\* components, the Dice loss, the weighted focal loss and the framework's
\* sigmoid_focal_loss.
C5_Original ==
    backLoss # NoLoss =>
       backLoss.terms = <<"DiceLoss", "WeightedFocalLoss",
                          "sigmoid_focal_loss">>

\* C5 amended: the loss handed to backward() is the sum of exactly two
\* components: loss1 of the configured criterion (DiceLoss or
\* BCEWithLogitsLoss) and loss2 of sigmoid_focal_loss; no weighted focal loss
\* is part of it.
C5_TwoTerms ==
    /\ backLoss # NoLoss =>
          /\ criterion \in {"DiceLoss", "BCEWithLogitsLoss"}
          /\ backLoss.terms = <<criterion, "sigmoid_focal_loss">>
    /\ pc \in {"opt_step", "accumulate"} =>
          /\ backLoss = loss
          /\ backLoss.value = loss1 + loss2

C5_Witness ==
    /\ pc = "opt_step"
    /\ criterion = "DiceLoss"
    /\ loss1 = 1
    /\ loss2 = 1
    /\ backLoss.value = 2

AllSnapshots ==
    {saveLatestCalls[i] : i \in 1..Len(saveLatestCalls)} \cup
    {saveCheckpointCalls[i] : i \in 1..Len(saveCheckpointCalls)}

\* C6: every snapshot of epoch e holds the model and the optimizer as they
\* are after all nb optimizer steps of epochs 1..e and before any step of
\* epoch e+1; save_latest and save_checkpoint run at the epoch boundary with
\* no step in between, so the latest and the checkpoint snapshot of one epoch
\* hold the same (model, optimizer) pair.
C6_SnapshotConsistent ==
    /\ \A s \in AllSnapshots : s.model = s.epoch * nb /\ s.opt = s.epoch * nb
    /\ \A s \in AllSnapshots : \A t \in AllSnapshots :
          s.epoch = t.epoch => s = t
    /\ pc \in {"save_latest", "save_checkpoint"} =>
          /\ batch = nb
          /\ Len(epochSteps) = nb
          /\ params = epoch * nb
          /\ optState = epoch * nb

C6_Witness ==
    /\ nb = 2
    /\ \E i \in 1..Len(saveLatestCalls) :
       \E j \in 1..Len(saveCheckpointCalls) :
          /\ saveLatestCalls[i].epoch = 2
          /\ saveCheckpointCalls[j] = saveLatestCalls[i]
          /\ saveLatestCalls[i].model = 4

\* C7: the writer is flushed at most once; it has been flushed exactly when
\* train has completed, and then the metrics and the snapshots of every epoch
\* have been written; a run ended by an exception has zero flushes.
C7_FlushOnce ==
    /\ flushes <= 1
    /\ flushes = 1 <=> TrainCompleted
    /\ flushes = 1 =>
          /\ epoch = num_epochs
          /\ Len(scalars) = 3 * num_epochs
          /\ Len(saveLatestCalls) = num_epochs
          /\ num_epochs >= 1 =>
                CheckpointEpochs = Scheduled(num_epochs, save_epoch)
    /\ exc # "" => flushes = 0

C7_Witness ==
    /\ pc = "train_done"
    /\ num_epochs >= 2
    /\ nb >= 1
    /\ flushes = 1
    /\ Len(scalars) = 3 * num_epochs

\* C8: the actions of a step happen in the order zero_grad, forward, loss,
\* backward, optimizer step, accumulation, each once; the optimizer step is
\* taken only after zero_grad and backward of the same step; metric emission
\* and the two saves happen only when every step of the epoch has committed.
C8_StepOrder ==
    /\ IsPrefix(ClaimLog, StepOrder)
    /\ pc = "zero_grad" => ClaimLog = <<>>
    /\ pc = "forward" => ClaimLog = SubSeq(StepOrder, 1, 1)
    /\ pc = "loss" => ClaimLog = SubSeq(StepOrder, 1, 2)
    /\ pc = "backward" => ClaimLog = SubSeq(StepOrder, 1, 3)
    /\ pc = "opt_step" => ClaimLog = SubSeq(StepOrder, 1, 4)
    /\ pc = "accumulate" => ClaimLog = SubSeq(StepOrder, 1, 5)
    /\ (pc = "next_batch" /\ batch > 0) => ClaimLog = StepOrder
    /\ epoch >= 1 =>
          params = (epoch - 1) * nb + Len(epochSteps)
                   + (IF Len(ClaimLog) = 5 THEN 1 ELSE 0)
    /\ pc \in {"emit", "save_latest", "save_checkpoint"} =>
          /\ batch = nb
          /\ Len(epochSteps) = nb
          /\ nb > 0 => ClaimLog = StepOrder

C8_Witness ==
    /\ pc = "emit"
    /\ epoch = 2
    /\ nb = 2
    /\ ClaimLog = StepOrder
    /\ params = 4

\* C9: once a statement of a step of epoch e has raised, train is stopped for
\* good: main never returns, no metric of epoch e is emitted, the saves made
\* are those of epochs before e (the latest snapshot is the one of epoch e-1,
\* none when e = 1), the writer is never flushed, and no step is retried.
C9_FailStop ==
    exc = "StepError" =>
       /\ pc = "raised"
       /\ failedAt \in StepPcs
       /\ ret = "unset"
       /\ flushes = 0
       /\ Len(scalars) = 3 * (epoch - 1)
       /\ \A i \in 1..Len(scalars) : scalars[i].step < epoch
       /\ Len(saveLatestCalls) = epoch - 1
       /\ epoch = 1 => LatestFile = <<>>
       /\ epoch > 1 => LatestFile # <<>> /\ LatestFile[1].epoch = epoch - 1
       /\ \A e \in CheckpointEpochs : e < epoch
       /\ params = (epoch - 1) * nb + Len(epochSteps)
                   + (IF failedAt = "accumulate" THEN 1 ELSE 0)
       /\ failedAt = "next_batch" => Len(epochSteps) = batch
       /\ failedAt # "next_batch" => Len(epochSteps) = batch - 1

C9_Witness ==
    /\ exc = "StepError"
    /\ pc = "raised"
    /\ failedAt = "backward"
    /\ epoch = 2
    /\ batch = 2
    /\ LatestFile # <<>>
    /\ Len(scalars) = 3

\* C10: the running sums hold exactly the losses of the steps committed in
\* the current epoch; for each epoch three metrics, Loss/overall, Loss/dice
\* and Loss/focal, are emitted once, tagged with the epoch, before save_latest
\* of that epoch, and the overall value is the dice value plus the focal value.
C10_Metrics ==
    /\ dice_loss = SumOf(epochSteps, 1)
    /\ focal_loss = SumOf(epochSteps, 2)
    /\ running_loss = SumOf(epochSteps, 1) + SumOf(epochSteps, 2)
    /\ Len(scalars) = 3 * (IF pc = "save_latest"
                           THEN Len(saveLatestCalls) + 1
                           ELSE Len(saveLatestCalls))
    /\ \A i \in 1..Len(scalars) :
          /\ scalars[i].step = (i + 2) \div 3
          /\ i % 3 = 1 => /\ scalars[i].tag = "Loss/overall"
                          /\ i + 2 <= Len(scalars)
                          /\ scalars[i].value =
                                scalars[i + 1].value + scalars[i + 2].value
          /\ i % 3 = 2 => scalars[i].tag = "Loss/dice"
          /\ i % 3 = 0 => scalars[i].tag = "Loss/focal"
    /\ pc \in {"save_latest", "save_checkpoint"} =>
          /\ Len(scalars) = 3 * epoch
          /\ scalars[3 * epoch - 1].value = SumOf(epochSteps, 1)
          /\ scalars[3 * epoch].value = SumOf(epochSteps, 2)

C10_Witness ==
    /\ pc = "save_latest"
    /\ epoch = 2
    /\ nb = 2
    /\ scalars[1].value = 2
    /\ scalars[4].value = 3
    /\ scalars[5].value = 1
    /\ scalars[6].value = 2

====
